---- MODULE Spec2Model ----
(***************************************************************************)
(* apgcheck: extraction of an untrusted tar.xz package into a scratch      *)
(* directory, validation of the extracted tree, and removal of the scratch *)
(* directory.  The repository holds three builds of the program:           *)
(*   "main.go"   src/main.go             (0.1.0, no extraction guards)      *)
(*   "part_000"  src/unnamed/part_000    (0.1.0 with the security patch)    *)
(*   "TODO.md"   src/TODO.md:390-809     (0.2.0, schema v1 and v2)          *)
(* Paths are strings; a string is a sequence of one-character strings.     *)
(***************************************************************************)
EXTENDS Integers, Sequences, FiniteSets, TLC

\* ------------------------------------------------------------------ bounds
MaxEntries == 3     \* tar entries read from one archive
MaxDefects == 2     \* metadata fields that differ from a complete record

\* --------------------------------------------------------- string helpers
Separator == "/"

At(s, i) == SubSeq(s, i, i)

HasPrefix(s, p) == Len(s) >= Len(p) /\ SubSeq(s, 1, Len(p)) = p

HasSuffix(s, p) == Len(s) >= Len(p) /\ SubSeq(s, Len(s) - Len(p) + 1, Len(s)) = p

Contains(s, p) == \E i \in 1..(Len(s) - Len(p) + 1) : SubSeq(s, i, i + Len(p) - 1) = p

\* strings.ContainsAny: some character of chars occurs in s
ContainsAny(s, chars) == \E i \in 1..Len(s) : \E j \in 1..Len(chars) : At(s, i) = At(chars, j)

\* c repeated n times, by halving
RECURSIVE Repeat(_, _)
Repeat(c, n) ==
    IF n = 0 THEN ""
    ELSE LET half == Repeat(c, n \div 2) IN
         IF n % 2 = 0 THEN half \o half ELSE half \o half \o c

\* index of the last Separator among the first n characters of s, 0 when there is none
LastSeparator(s, n) ==
    LET seps == {i \in 1..n : At(s, i) = Separator} IN
    IF seps = {} THEN 0 ELSE CHOOSE i \in seps : \A j \in seps : j <= i

\* first index >= r at which s holds a Separator, Len(s)+1 when there is none
SegmentEnd(s, r) ==
    LET seps == {i \in r..Len(s) : At(s, i) = Separator} IN
    IF seps = {} THEN Len(s) + 1 ELSE CHOOSE i \in seps : \A j \in seps : i <= j

\* ------------------------------------------------------- path/filepath
\* The loop of filepath.Clean: r is the read index (1-based), out the output
\* buffer, dotdot the length of the output that a ".." may not backtrack over.
RECURSIVE CleanLoop(_, _, _, _, _)
CleanLoop(path, r, out, dotdot, rooted) ==
    LET n == Len(path) IN
    IF r > n THEN out
    ELSE IF At(path, r) = Separator
        THEN CleanLoop(path, r + 1, out, dotdot, rooted)
    ELSE IF At(path, r) = "." /\ (r = n \/ At(path, r + 1) = Separator)
        THEN CleanLoop(path, r + 1, out, dotdot, rooted)
    ELSE IF At(path, r) = "." /\ At(path, r + 1) = "."
              /\ (r + 1 = n \/ At(path, r + 2) = Separator)
        THEN IF Len(out) > dotdot
                THEN LET cut == LastSeparator(out, Len(out))
                         keep == IF cut > dotdot THEN cut - 1 ELSE dotdot
                     IN  CleanLoop(path, r + 2, SubSeq(out, 1, keep), dotdot, rooted)
             ELSE IF ~rooted
                THEN LET grown == (IF Len(out) > 0 THEN out \o Separator ELSE out) \o ".."
                     IN  CleanLoop(path, r + 2, grown, Len(grown), rooted)
             ELSE CleanLoop(path, r + 2, out, dotdot, rooted)
    ELSE CleanLoop(path, SegmentEnd(path, r),
                   out \o (IF (rooted /\ Len(out) # 1) \/ (~rooted /\ Len(out) # 0)
                           THEN Separator ELSE "")
                       \o SubSeq(path, r, SegmentEnd(path, r) - 1),
                   dotdot, rooted)

\* the empty result of the loop is "."
OrDot(out) == IF out = "" THEN "." ELSE out

Clean(path) ==
    IF path = "" THEN "."
    ELSE IF At(path, 1) = Separator THEN OrDot(CleanLoop(path, 2, Separator, 1, TRUE))
    ELSE OrDot(CleanLoop(path, 1, "", 0, FALSE))

IsAbs(path) == HasPrefix(path, Separator)

\* filepath.Join of two elements: empty elements are ignored, the rest is
\* joined with the separator and cleaned; all empty gives "".
Join(a, b) ==
    IF a = "" /\ b = "" THEN ""
    ELSE IF a = "" THEN Clean(b)
    ELSE IF b = "" THEN Clean(a)
    ELSE Clean(a \o Separator \o b)

\* filepath.Dir: everything up to the last separator, cleaned.
Dir(path) == Clean(SubSeq(path, 1, LastSeparator(path, Len(path))))

\* ------------------------------------------------------------ entry names
Dest == "/tmp/apgcheck-00000000"

LongName == Repeat("a", 256)

\* the names read from archives: the mandatory entries, the root itself, traversal
\* in leading, middle and trailing position, an absolute name, a name that ends
\* in two dots, a name of 256 characters
EntryNames == {"", ".", "data", "md5sums", "metadata.json", "data/../metadata.json",
               "../evil", "data/..", "/etc/passwd", "data/notes..", LongName}

\* p and the directories above it
RECURSIVE Ancestors(_)
Ancestors(p) == IF p = "/" THEN {p} ELSE {p} \cup Ancestors(Dir(p))

\* every path the program can name
KnownPaths ==
    UNION {Ancestors(Join(Clean(Dest), Clean(n))) \cup Ancestors(Join(Dest, n)) : n \in EntryNames}

\* the last component of p
Base(p) == SubSeq(p, LastSeparator(p, Len(p)) + 1, Len(p))

\* ------------------------------------------------------- metadata.json
\* The bytes of a file are abstracted to the JSON document they hold: top is
\* "object", "null", "array" (a JSON value that is no object) or "invalid"
\* (no JSON at all); an object gives every key of interest one of the kinds
\*   absent, null, emptystr "", str "s", emptylist [], list ["s"], number 5.
StringFields == {"name", "version", "type", "description", "maintainer", "homepage"}
PointerFields == {"architecture", "license"}
ListFields == {"tags", "dependencies", "conflicts", "provides", "replaces", "conf"}
AllFields == StringFields \cup PointerFields \cup ListFields

Kinds == {"absent", "null", "emptystr", "str", "emptylist", "list", "number"}

MakeDoc(top, fields) == [top |-> top, fields |-> fields]
NoFields == [f \in AllFields |-> "absent"]
Blob == MakeDoc("invalid", NoFields)
NoContent == MakeDoc("none", NoFields)

\* ------------------------------------------------------------ file system
\* A file system maps the absolute cleaned paths the program has created to
\* nodes; "/" and "/tmp" exist beforehand.  perm holds the permission bits the
\* kernel has stored: the mode asked for without the bits of the process's umask,
\* which the program never sets and so inherits.
\* The operators take as their first argument `at` the path arithmetic of the
\* run (Paths, below): at.parent[p] is filepath.Dir(p), and at.tooLong[p] says
\* that the last component of p has more than 255 characters (ENAMETOOLONG).

DirNode(perm) == [kind |-> "dir", perm |-> perm, content |-> "none"]
FileNode(perm, content) == [kind |-> "file", perm |-> perm, content |-> content]
NoNode == [kind |-> "none", perm |-> 0, content |-> "none"]

Lookup(fsys, p) ==
    IF p \in DOMAIN fsys THEN fsys[p]
    ELSE IF p = "/" THEN DirNode(493)
    ELSE IF p = "/tmp" THEN DirNode(511)
    ELSE NoNode

Put(fsys, p, node) == [q \in DOMAIN fsys \cup {p} |-> IF q = p THEN node ELSE fsys[q]]

RECURSIVE BitAnd(_, _)
BitAnd(a, b) ==
    IF a = 0 \/ b = 0 THEN 0
    ELSE (a % 2) * (b % 2) + 2 * BitAnd(a \div 2, b \div 2)

\* mode & ~umask
Masked(perm, umask) == perm - BitAnd(perm, umask)

\* owner permission bits; the superuser passes every permission check
Searchable(root, node) == root \/ BitAnd(node.perm, 64) # 0
Writable(root, node) == root \/ BitAnd(node.perm, 128) # 0
Readable(root, node) == root \/ BitAnd(node.perm, 256) # 0

\* the result of a system call that changes nothing, and of one that puts a node
Failed(fsys) == [fs |-> fsys, ok |-> FALSE, touched |-> {}]
Created(fsys, p, node) == [fs |-> Put(fsys, p, node), ok |-> TRUE, touched |-> {p}]

\* one directory on the way: up is the result for the directories above it
WalkStep(up, long, node, root) ==
    IF up # "ok" THEN up
    ELSE IF long THEN "ENAMETOOLONG"
    ELSE IF node.kind = "none" THEN "ENOENT"
    ELSE IF node.kind # "dir" THEN "ENOTDIR"
    ELSE IF ~Searchable(root, node) THEN "EACCES"
    ELSE "ok"

\* path resolution of the directory d: "ok", or the errno met on the way
RECURSIVE Walk(_, _, _, _)
Walk(at, fsys, root, d) ==
    WalkStep(IF d = "/" THEN "ok" ELSE Walk(at, fsys, root, at.parent[d]),
             at.tooLong[d], Lookup(fsys, d), root)

StatStep(up, long, node) ==
    IF up # "ok" THEN up
    ELSE IF long THEN "ENAMETOOLONG"
    ELSE IF node.kind = "none" THEN "ENOENT"
    ELSE "ok"

\* os.Stat: "ok" or an errno
Stat(at, fsys, root, p) ==
    IF p = "/" THEN "ok"
    ELSE StatStep(Walk(at, fsys, root, at.parent[p]), at.tooLong[p], Lookup(fsys, p))

\* os.Mkdir
Mkdir(at, fsys, root, umask, p, perm) ==
    IF \/ Walk(at, fsys, root, at.parent[p]) # "ok"
       \/ at.tooLong[p]
       \/ Lookup(fsys, p).kind # "none"
       \/ ~Writable(root, Lookup(fsys, at.parent[p]))
    THEN Failed(fsys)
    ELSE Created(fsys, p, DirNode(Masked(perm, umask)))

\* a directory made after the directories above it
After(up, made) == [fs |-> made.fs, ok |-> made.ok, touched |-> up.touched \cup made.touched]

MkdirUnder(at, up, root, umask, p, perm) ==
    IF ~up.ok THEN up ELSE After(up, Mkdir(at, up.fs, root, umask, p, perm))

\* os.MkdirAll: nothing to do for an existing directory, an error for an existing
\* non-directory, else the parent first and then the directory itself, all with perm
RECURSIVE MkdirAll(_, _, _, _, _, _)
MkdirAll(at, fsys, root, umask, p, perm) ==
    IF Stat(at, fsys, root, p) = "ok"
    THEN [fs |-> fsys, ok |-> Lookup(fsys, p).kind = "dir", touched |-> {}]
    ELSE MkdirUnder(at,
                    IF p = "/" THEN [fs |-> fsys, ok |-> TRUE, touched |-> {}]
                    ELSE MkdirAll(at, fsys, root, umask, at.parent[p], perm),
                    root, umask, p, perm)

\* open(2) with O_CREATE|O_TRUNC and O_WRONLY, or O_RDWR when rdwr, once the
\* directory is resolved: node is what p names, dir the directory that holds it.
\* An existing file keeps its mode and needs the permissions of the access mode;
\* the file is left without a byte, which is no JSON.
Open(fsys, root, umask, p, perm, rdwr, node, dir) ==
    IF node.kind = "dir" THEN Failed(fsys)
    ELSE IF node.kind = "file"
        THEN IF Writable(root, node) /\ (rdwr => Readable(root, node))
             THEN Created(fsys, p, FileNode(node.perm, Blob))
             ELSE Failed(fsys)
    ELSE IF ~Writable(root, dir) THEN Failed(fsys)
    ELSE Created(fsys, p, FileNode(Masked(perm, umask), Blob))

\* io.CopyN(outFile, tr, header.Size) (io.Copy in src/main.go) and outFile.Close()
\* on the result of the open: the bytes of the entry that the archive holds go
\* into the file; cut says that the archive ends before all of header.Size bytes
Copy(opened, p, content, cut) ==
    IF ~opened.ok
    THEN [fs |-> opened.fs, ok |-> FALSE, copied |-> FALSE, touched |-> opened.touched]
    ELSE [fs |-> Put(opened.fs, p, FileNode(opened.fs[p].perm, content)), ok |-> TRUE,
          copied |-> ~cut, touched |-> opened.touched]

\* os.OpenFile(O_CREATE|O_WRONLY|O_TRUNC) (os.Create in src/main.go, which opens
\* with O_RDWR) followed by the copy of the entry's data
CreateFile(at, fsys, root, umask, p, perm, rdwr, content, cut) ==
    Copy(IF Walk(at, fsys, root, at.parent[p]) # "ok" \/ at.tooLong[p] THEN Failed(fsys)
         ELSE Open(fsys, root, umask, p, perm, rdwr, Lookup(fsys, p),
                   Lookup(fsys, at.parent[p])),
         p, content, cut)

\* p is dir or lies below it
Within(p, dir) == p = dir \/ HasPrefix(p, dir \o Separator)

\* what fsys holds at p and below, and directly in the directory p
Below(fsys, p) == {q \in DOMAIN fsys : Within(q, p)}
Children(at, fsys, p) == {q \in DOMAIN fsys : at.parent[q] = p}

\* unlinkat(2) of a name in the directory dir
Unlinkable(root, dir) == Writable(root, dir) /\ Searchable(root, dir)

\* the directory p after the removal of what it holds: rest is what is left of
\* that, gone says that the process may remove the name p
Emptied(rest, p, gone) == IF rest = {} /\ gone THEN {} ELSE {p} \cup rest

\* removeAllFrom of os.RemoveAll on the name p in its directory: the paths that
\* are left.  A file or an empty directory goes when its directory lets the
\* process unlink; a directory that holds something has to be opened and read
\* first, what it holds is removed as far as possible, and then it goes like an
\* empty one if nothing is left in it.
RECURSIVE removeAllFrom(_, _, _, _)
removeAllFrom(at, fsys, root, p) ==
    IF Lookup(fsys, p).kind = "none" THEN {}
    ELSE IF Lookup(fsys, p).kind = "file" \/ Children(at, fsys, p) = {}
        THEN IF Unlinkable(root, Lookup(fsys, at.parent[p])) THEN {} ELSE {p}
    ELSE IF \/ ~Searchable(root, Lookup(fsys, at.parent[p]))
            \/ ~Readable(root, Lookup(fsys, p))
        THEN Below(fsys, p)
    ELSE Emptied(UNION {removeAllFrom(at, fsys, root, q) : q \in Children(at, fsys, p)},
                 p, Unlinkable(root, Lookup(fsys, at.parent[p])))

\* the file system with only the paths left of what was in dir; the error is
\* nil when nothing is left
Removed(fsys, dir, left) ==
    [fs |-> [p \in {q \in DOMAIN fsys : ~Within(q, dir)} \cup left |-> fsys[p]],
     ok |-> left = {}]

\* os.RemoveAll: it removes what it can and returns the first error it met
RemoveAll(at, fsys, root, dir) == Removed(fsys, dir, removeAllFrom(at, fsys, root, dir))

\* ------------------------------------------------- metadata.json decoded
\* the record with every key set to a non-empty value of its own type
CompleteFields == [f \in AllFields |-> IF f \in ListFields THEN "list" ELSE "str"]
CompleteV2 == MakeDoc("object", CompleteFields)
\* the same without the keys that only schema v2 knows
CompleteV1 ==
    MakeDoc("object", [f \in AllFields |->
        IF f \in {"type", "tags", "conf"} THEN "absent" ELSE CompleteFields[f]])

\* struct Metadata / MetadataV1, and MetadataV2: the keys the decoder looks at
FieldsV1 == AllFields \ {"type", "tags", "conf"}
FieldsV2 == AllFields

\* encoding/json on one struct field: does the JSON value fit the Go type
Fits(f, kind) ==
    IF kind \in {"absent", "null"} THEN TRUE
    ELSE IF f \in ListFields THEN kind \in {"emptylist", "list"}
    ELSE kind \in {"emptystr", "str"}

\* the Go value the field holds after decoding: "" or "s" for a string,
\* nil, empty or nonempty for a slice
Decoded(f, kind) ==
    IF f \in ListFields
    THEN (IF kind = "emptylist" THEN "empty" ELSE IF kind = "list" THEN "nonempty" ELSE "nil")
    ELSE (IF kind = "str" THEN "s" ELSE "")

\* json.Unmarshal(fileData, &meta) into a struct with the keys `known`:
\* keys the struct does not have are ignored
Unmarshal(doc, known) ==
    IF doc.top \in {"invalid", "none", "array"}
        THEN [ok |-> FALSE, meta |-> [f \in known |-> Decoded(f, "absent")]]
    ELSE IF doc.top = "null"
        THEN [ok |-> TRUE, meta |-> [f \in known |-> Decoded(f, "absent")]]
    ELSE [ok |-> \A f \in known : Fits(f, doc.fields[f]),
          meta |-> [f \in known |-> Decoded(f, doc.fields[f])]]

\* the order in which the validators test the fields
OrderV1 == <<"name", "version", "description", "maintainer", "homepage",
             "dependencies", "conflicts", "provides", "replaces">>
\* the v2 validator without its test of conf
OrderV2NoConf == <<"name", "version", "type", "description", "maintainer", "homepage", "tags",
                   "dependencies", "conflicts", "provides", "replaces">>
OrderV2 == <<"name", "version", "type", "description", "maintainer", "homepage", "tags",
             "dependencies", "conflicts", "provides", "replaces", "conf">>

\* a slice tested with len(...) == 0 instead of == nil
FieldMissingByLen(meta, f) ==
    IF f \in ListFields THEN meta[f] \in {"nil", "empty"} ELSE meta[f] = ""

FieldMissing(meta, f) == IF f \in ListFields THEN meta[f] = "nil" ELSE meta[f] = ""

RECURSIVE missingFields(_, _, _)
missingFields(meta, order, i) ==
    IF i > Len(order) THEN <<>>
    ELSE (IF FieldMissing(meta, order[i]) THEN <<order[i]>> ELSE <<>>)
         \o missingFields(meta, order, i + 1)

\* ------------------------------------------------------------ validators
required == <<"data", "md5sums", "metadata.json">>

\* filepath.Join(dir, name); at.scratch holds it for the scratch directory
PathIn(at, dir, name) ==
    IF dir = Dest /\ name \in DOMAIN at.scratch THEN at.scratch[name] ELSE Join(dir, name)

\* the first required name whose os.Stat error is a not-exist error, "" if none
RECURSIVE firstMissing(_, _, _, _, _)
firstMissing(at, fsys, root, dir, i) ==
    IF i > Len(required) THEN ""
    ELSE IF Stat(at, fsys, root, PathIn(at, dir, required[i])) = "ENOENT" THEN required[i]
    ELSE firstMissing(at, fsys, root, dir, i + 1)

\* the bytes of the node that p names, st being the result of its path resolution
ReadNode(st, node, root) ==
    IF st # "ok" \/ node.kind # "file" \/ ~Readable(root, node)
    THEN [ok |-> FALSE, data |-> NoContent]
    ELSE [ok |-> TRUE, data |-> node.content]

\* os.ReadFile
ReadFile(at, fsys, root, p) == ReadNode(Stat(at, fsys, root, p), Lookup(fsys, p), root)

Verdict(fileErr, jsonErr, status, missing) ==
    [fileErr |-> fileErr, jsonErr |-> jsonErr, status |-> status, missing |-> missing]

\* the end of a validator: the list of missing fields decides
graded(miss) ==
    IF Len(miss) > 0 THEN Verdict("nil", "missing fields", "bad", miss)
    ELSE Verdict("nil", "nil", "good", <<>>)

\* the field tests run without a look at the error of json.Unmarshal
parsedAnyway(dec, order) == graded(missingFields(dec.meta, order, 1))

\* after json.Unmarshal
parsed(dec, order) ==
    IF ~dec.ok THEN Verdict("nil", "invalid JSON", "bad", <<>>)
    ELSE graded(missingFields(dec.meta, order, 1))

\* after the loop over the required entries (gone) and os.ReadFile (file)
checked(gone, file, known, order) ==
    IF gone # "" THEN Verdict(gone, "nil", "bad", <<>>)
    ELSE IF ~file.ok THEN Verdict("nil", "read", "bad", <<>>)
    ELSE parsed(Unmarshal(file.data, known), order)

\* the body shared by checkApgFile, checkApgFileV1 and checkApgFileV2
checkWith(at, fsys, root, dir, known, order) ==
    checked(firstMissing(at, fsys, root, dir, 1),
            ReadFile(at, fsys, root, PathIn(at, dir, "metadata.json")),
            known, order)

checkApgFile(at, fsys, root, dir) == checkWith(at, fsys, root, dir, FieldsV1, OrderV1)
checkApgFileV1(at, fsys, root, dir) == checkWith(at, fsys, root, dir, FieldsV1, OrderV1)
checkApgFileV2(at, fsys, root, dir) == checkWith(at, fsys, root, dir, FieldsV2, OrderV2)

\* ------------------------------------------------------------ tar entries
TypeReg == "0"
TypeLink == "1"
TypeSymlink == "2"
TypeDir == "5"
TypeFifo == "6"
Typeflags == {TypeReg, TypeLink, TypeSymlink, TypeDir, TypeFifo}

maxFileSize == 500 * 1024 * 1024

DirModes == {0, 511}

\* a header and the data that follow it: content is what the bytes of the entry
\* in the archive hold, cut says that the archive ends before all of the
\* size bytes that the header declares
Entry(name, typeflag, size, mode, content, cut) ==
    [name |-> name, typeflag |-> typeflag, size |-> size, mode |-> mode, content |-> content,
     cut |-> cut]

\* the names of the entries in whose data the archives read here may end
CutNames == {"md5sums", "metadata.json"}

\* what the bytes of a regular file named n hold: a metadata record is what an
\* entry named metadata.json carries, other files carry arbitrary bytes
Contents(n) == IF Clean(n) = "metadata.json" THEN {Blob, CompleteV1, CompleteV2} ELSE {Blob}

\* the entries an archive may hold under the name n.  The bytes that arrive of
\* an entry that the archive cuts short are no JSON when the cut falls into
\* the record, and the whole record when it falls after it (into the white
\* space that ends the file).
EntriesNamed(n) ==
    {Entry(n, TypeDir, 0, m, NoContent, FALSE) : m \in DirModes}
    \cup {Entry(n, TypeReg, 64, 420, c, FALSE) : c \in Contents(n)}
    \cup (IF n \in CutNames THEN {Entry(n, TypeReg, 64, 420, c, TRUE) : c \in Contents(n)}
          ELSE {})
    \cup {Entry(n, TypeReg, z, 420, Blob, FALSE) : z \in {maxFileSize, maxFileSize + 1}}
    \cup {Entry(n, t, 0, 511, NoContent, FALSE) : t \in {TypeSymlink, TypeLink, TypeFifo}}

Entries == UNION {EntriesNamed(n) : n \in EntryNames}

\* --------------------------------------------------------- extractTarXz
\* a turn of the loop that never prints the warning of the default case
OutcomeUnwarned(fsys, err, touched, warned) ==
    [fs |-> fsys, err |-> err, touched |-> touched, warned |-> FALSE]

Outcome(fsys, err, touched, warned) ==
    [fs |-> fsys, err |-> err, touched |-> touched, warned |-> warned]

\* "\x00" in the source.  A TLA+ string has no way to hold the character U+0000,
\* so the form feed stands for it in the names of the model.  archive/tar ends
\* a header name at its first NUL and refuses a PAX path that holds one, so
\* tr.Next() returns no name with this character and EntryNames has none.
NulByte == "\f"

\* the checks of the patched extractTarXz on the path of an entry
\* (src/unnamed/part_000:133-161): the error of the first one that fails
pathError(absDest, cleanPath, absTarget) ==
    IF IsAbs(cleanPath) THEN "absolute path"
    ELSE IF \/ HasPrefix(cleanPath, ".." \o Separator)
            \/ Contains(cleanPath, Separator \o ".." \o Separator)
            \/ HasSuffix(cleanPath, "..")
            \/ cleanPath = ".."
        THEN "path traversal attempt"
    ELSE IF ~HasPrefix(absTarget, absDest \o Separator) /\ absTarget # absDest
        THEN "outside destination"
    ELSE IF Len(cleanPath) > 255 THEN "path too long"
    ELSE IF ContainsAny(cleanPath, NulByte) THEN "null byte"
    ELSE "nil"

\* target := filepath.Join(absDest, cleanPath); absTarget, _ := filepath.Abs(target)
located(absDest, cleanPath, target) ==
    [err |-> pathError(absDest, cleanPath, Clean(target)), target |-> target]

\* the path of an entry in the patched extractTarXz (src/unnamed/part_000:117,
\* 131-161): the error of the first check that fails, "nil" if none, and the target
sanitize(dest, name) == located(Clean(dest), Clean(name), Join(Clean(dest), Clean(name)))

\* the path of an entry in src/main.go:67
targetMainGo(dest, name) == Join(dest, name)

\* The path arithmetic of a run, computed once: the parent and the ENAMETOOLONG
\* flag of every path, the paths of the mandatory entries in the scratch
\* directory, and the target of every name read, patched and unpatched.
Paths ==
    [parent |-> [p \in KnownPaths |-> Dir(p)],
     tooLong |-> [p \in KnownPaths |-> Len(Base(p)) > 255],
     scratch |-> [name \in {required[i] : i \in 1..Len(required)} |-> Join(Dest, name)],
     sanitized |-> [n \in EntryNames |-> sanitize(Dest, n)],
     mainGo |-> [n \in EntryNames |-> targetMainGo(Dest, n)]]

\* case tar.TypeDir after os.MkdirAll
folder(made) ==
    Outcome(made.fs, IF made.ok THEN "nil" ELSE "create folder", made.touched, FALSE)

\* case tar.TypeReg after os.OpenFile, the copy and the close: the file that could
\* not be opened, and the file that was opened and did not get all its bytes
written(made, file) ==
    Outcome(file.fs,
            IF ~file.ok THEN "create file" ELSE IF ~file.copied THEN "write file" ELSE "nil",
            made.touched \cup file.touched, FALSE)

\* case tar.TypeReg after os.MkdirAll of the directory of the target
regular(at, made, root, umask, target, perm, rdwr, content, cut) ==
    IF ~made.ok THEN Outcome(made.fs, "create file path", made.touched, FALSE)
    ELSE written(made, CreateFile(at, made.fs, root, umask, target, perm, rdwr, content, cut))

\* the switch on the type of an entry in the patched extractTarXz
\* (src/unnamed/part_000:163-194)
switchOn(at, fsys, root, umask, e, target) ==
    IF e.typeflag = TypeDir
        THEN folder(MkdirAll(at, fsys, root, umask, target, BitAnd(e.mode, 493)))
    ELSE IF e.typeflag = TypeReg
        THEN IF e.size > maxFileSize THEN Outcome(fsys, "file too large", {}, FALSE)
             ELSE regular(at, MkdirAll(at, fsys, root, umask, at.parent[target], 493),
                          root, umask, target, 420, FALSE, e.content, e.cut)
    ELSE IF e.typeflag \in {TypeSymlink, TypeLink}
        THEN Outcome(fsys, "links not allowed", {}, FALSE)
    ELSE Outcome(fsys, "nil", {}, TRUE)

\* one turn of the loop of the patched extractTarXz (src/unnamed/part_000:131-194)
extractEntry(at, fsys, root, umask, e) ==
    IF at.sanitized[e.name].err # "nil"
    THEN Outcome(fsys, at.sanitized[e.name].err, {}, FALSE)
    ELSE switchOn(at, fsys, root, umask, e, at.sanitized[e.name].target)

\* the switch on the type of an entry in src/main.go:69-91; os.Create opens with
\* O_RDWR and mode 0666
switchMainGo(at, fsys, root, umask, e, target) ==
    IF e.typeflag = TypeDir
        THEN folder(MkdirAll(at, fsys, root, umask, target, e.mode))
    ELSE IF e.typeflag = TypeReg
        THEN regular(at, MkdirAll(at, fsys, root, umask, at.parent[target], 493),
                     root, umask, target, 438, TRUE, e.content, e.cut)
    ELSE Outcome(fsys, "nil", {}, TRUE)

\* one turn of the loop of extractTarXz in src/main.go:67-91
extractEntryMainGo(at, fsys, root, umask, e) ==
    switchMainGo(at, fsys, root, umask, e, at.mainGo[e.name])

\* ------------------------------------------------------------------ state
VARIABLES
    build,       \* which of the repository's builds of main runs
    isRoot,      \* the process runs as the superuser
    umask,       \* the file mode creation mask the process has inherited
    apgVersion,  \* --apg-version (build "TODO.md"), 1 by default
    pc,          \* start, open, extracting, extracted, validated, exited
    fs,          \* what the program has created in the file system
    nread,       \* tar headers read so far
    extractErr,  \* the error extractTarXz returned: its message and the name in it
    verdict,     \* what the validator returned
    printed,     \* the messages the program has printed
    cleanup,     \* os.RemoveAll on the scratch directory: none, ok, failed
    exitCode     \* -1 while the process runs

vars == <<build, isRoot, umask, apgVersion, pc, fs, nread, extractErr, verdict, printed,
          cleanup, exitCode>>

Builds == {"main.go", "part_000", "TODO.md"}
ApgVersions == {0, 1, 2, 3}

\* the usual mask 022, and 0400, which takes the read permission from the owner
Umasks == {18, 256}

Err(msg, name) == [msg |-> msg, name |-> name]
Nil == Err("nil", "")
NoVerdict == Verdict("nil", "nil", "", <<>>)
EmptyFS == [p \in {} |-> NoNode]

pathToFolderTMP == Dest

Init ==
    /\ build \in Builds
    /\ isRoot \in BOOLEAN
    /\ umask \in Umasks
    /\ apgVersion = 1
    /\ pc = "start"
    /\ fs = EmptyFS
    /\ nread = 0
    /\ extractErr = Nil
    /\ verdict = NoVerdict
    /\ printed = {}
    /\ cleanup = "none"
    /\ exitCode = -1

\* the command lines: a flag the build does not define (or a value it cannot
\* parse), --help, --version, no --apgfile, and --apgfile with a path
CommandLines(b) ==
    IF b = "main.go" THEN {"bad flag", "help", "none", "file"}
    ELSE {"bad flag", "help", "version", "none", "file"}

\* the exit statuses of a command line that does not reach the extraction.
\* pflag.Parse ends the process with 2 on a flag it cannot parse
\* (ExitOnError); src/main.go defines no --help, there pflag prints its usage
\* and ends with 0 or with 2, depending on the version of pflag.
ExitStatuses(b, arg) ==
    IF arg = "bad flag" THEN {2}
    ELSE IF arg = "help" THEN (IF b = "main.go" THEN {0, 2} ELSE {0})
    ELSE IF arg = "version" THEN {0}
    ELSE IF b = "main.go" THEN {0}
    ELSE {1}

\* the values pflag.Parse binds to --apg-version
Selectors(b) == IF b = "TODO.md" THEN ApgVersions ELSE {1}

\* main up to the call of extractTarXz: pflag.Parse, which binds the value of
\* --apg-version (also on a command line that ends the process, and before the
\* flag it cannot parse) or ends the process, and the tests of the flags
MainStart ==
    /\ pc = "start"
    /\ apgVersion' \in Selectors(build)
    /\ \E arg \in CommandLines(build) :
          IF arg = "file"
          THEN /\ pc' = "open"
               /\ UNCHANGED <<printed, exitCode>>
          ELSE /\ pc' = "exited"
               /\ printed' = {arg}
               /\ exitCode' \in ExitStatuses(build, arg)
    /\ UNCHANGED <<build, isRoot, umask, fs, nread, extractErr, verdict, cleanup>>

\* extractTarXz up to its loop: os.Open, xz.NewReader, filepath.Abs
ExtractOpen ==
    /\ pc = "open"
    /\ \E msg \in {"nil", "open archive", "XZ-reader"} :
          /\ extractErr' = Err(msg, "")
          /\ pc' = IF msg = "nil" THEN "extracting" ELSE "extracted"
    /\ UNCHANGED <<build, isRoot, umask, apgVersion, fs, nread, verdict, printed, cleanup,
                   exitCode>>

\* what one turn of the loop of extractTarXz does with the entry e
turnAt(at, e) ==
    IF build = "main.go" THEN extractEntryMainGo(at, fs, isRoot, umask, e)
    ELSE extractEntry(at, fs, isRoot, umask, e)

turn(e) == turnAt(Paths, e)

\* a loop that goes on to the next header after an error
takenAndOn(out, e) ==
    /\ fs' = out.fs
    /\ printed' = IF out.warned THEN printed \cup {"skipping"} ELSE printed
    /\ extractErr' = IF out.err = "nil" THEN Nil ELSE Err(out.err, e.name)
    /\ pc' = "extracting"

\* the loop goes on after a turn without error and ends with the first error
taken(out, e) ==
    /\ fs' = out.fs
    /\ printed' = IF out.warned THEN printed \cup {"skipping"} ELSE printed
    /\ extractErr' = IF out.err = "nil" THEN Nil ELSE Err(out.err, e.name)
    /\ pc' = IF out.err = "nil" THEN "extracting" ELSE "extracted"

\* tr.Next() returns a header: one turn of the loop
ExtractEntry ==
    /\ pc = "extracting"
    /\ nread < MaxEntries
    /\ \E e \in Entries : taken(turn(e), e)
    /\ nread' = nread + 1
    /\ UNCHANGED <<build, isRoot, umask, apgVersion, verdict, cleanup, exitCode>>

\* tr.Next() returns io.EOF: extractTarXz returns nil
ExtractEOF ==
    /\ pc = "extracting"
    /\ pc' = "extracted"
    /\ UNCHANGED <<build, isRoot, umask, apgVersion, fs, nread, extractErr, verdict, printed,
                   cleanup, exitCode>>

\* tr.Next() returns another error: the archive is corrupt
ExtractReadError ==
    /\ pc = "extracting"
    /\ extractErr' = Err("reading archive", "")
    /\ pc' = "extracted"
    /\ UNCHANGED <<build, isRoot, umask, apgVersion, fs, nread, verdict, printed, cleanup,
                   exitCode>>

\* os.RemoveAll(pathToFolderTMP) in main: out is what the call leaves and returns
Remove(out) ==
    /\ fs' = out.fs
    /\ cleanup' = IF out.ok THEN "ok" ELSE "failed"

\* os.RemoveAll(pathToFolderTMP) as the last statement of main, after main has
\* printed said; warns says that the build looks at the error and prints it
RemoveAndWarn(out, said, warns) ==
    /\ Remove(out)
    /\ printed' = said \cup (IF ~out.ok /\ warns THEN {"cleanup failed"} ELSE {})

\* a selector that takes every version from 2 on for version 2
validateFrom2(at, fsys, root, b, v) ==
    IF b = "TODO.md"
    THEN (IF v >= 2 THEN checkApgFileV2(at, fsys, root, pathToFolderTMP)
          ELSE checkApgFileV1(at, fsys, root, pathToFolderTMP))
    ELSE checkApgFile(at, fsys, root, pathToFolderTMP)

validate(at, fsys, root, b, v) ==
    IF b = "TODO.md"
    THEN (IF v = 2 THEN checkApgFileV2(at, fsys, root, pathToFolderTMP)
          ELSE checkApgFileV1(at, fsys, root, pathToFolderTMP))
    ELSE checkApgFile(at, fsys, root, pathToFolderTMP)

\* main from the return of extractTarXz to the return of the validator
MainValidate ==
    /\ pc = "extracted"
    /\ IF extractErr # Nil /\ build # "main.go"
       THEN /\ printed' = printed \cup {"extraction error"}
            /\ Remove(RemoveAll(Paths, fs, isRoot, pathToFolderTMP))
            /\ exitCode' = 1
            /\ pc' = "exited"
            /\ UNCHANGED verdict
       ELSE /\ printed' = IF extractErr # Nil THEN printed \cup {"extraction error"}
                          ELSE printed
            /\ verdict' = validate(Paths, fs, isRoot, build, apgVersion)
            /\ pc' = "validated"
            /\ UNCHANGED <<fs, cleanup, exitCode>>
    /\ UNCHANGED <<build, isRoot, umask, apgVersion, nread, extractErr>>

report(v) ==
    (IF v.fileErr # "nil" THEN {"file error"} ELSE {})
    \cup (IF v.jsonErr # "nil" THEN {"json error"} ELSE {})
    \cup (IF v.status = "good" THEN {"success"} ELSE {})

\* main after the validator: the report, the removal of the scratch directory, the exit
MainFinish ==
    /\ pc = "validated"
    /\ pc' = "exited"
    /\ IF build = "main.go"
       THEN /\ RemoveAndWarn(RemoveAll(Paths, fs, isRoot, pathToFolderTMP),
                             printed \cup report(verdict), TRUE)
            /\ exitCode' = 0
       ELSE IF verdict.fileErr # "nil" \/ verdict.jsonErr # "nil"
       THEN /\ printed' = printed \cup (IF verdict.fileErr # "nil" THEN {"file error"}
                                        ELSE {"json error"})
            /\ exitCode' = 1
            /\ IF build = "part_000"
               THEN Remove(RemoveAll(Paths, fs, isRoot, pathToFolderTMP))
               ELSE UNCHANGED <<fs, cleanup>>
       ELSE /\ RemoveAndWarn(RemoveAll(Paths, fs, isRoot, pathToFolderTMP),
                             printed \cup report(verdict), build = "part_000")
            /\ exitCode' = 0
    /\ UNCHANGED <<build, isRoot, umask, apgVersion, nread, extractErr, verdict>>

Next ==
    \/ MainStart
    \/ ExtractOpen
    \/ ExtractEntry
    \/ ExtractEOF
    \/ ExtractReadError
    \/ MainValidate
    \/ MainFinish

Spec == Init /\ [][Next]_vars

\* ------------------------------------------------- validation on its own
\* The validators applied to extracted trees: extraction has returned nil and
\* left a scratch directory that holds each mandatory entry as a directory, as
\* a file or not at all, and in metadata.json a record that differs from the
\* complete one in at most MaxDefects keys.
KindsOf(f) ==
    IF f \in ListFields THEN {"absent", "null", "emptylist", "list", "number"}
    ELSE {"absent", "null", "emptystr", "str", "number"}

\* the records that may differ from the complete one in the keys D
Defective(D) ==
    LET changes == {c \in [D -> Kinds] : \A f \in D : c[f] \in KindsOf(f)} IN
    {[f \in AllFields |-> IF f \in D THEN c[f] ELSE CompleteFields[f]] : c \in changes}

Records == UNION {Defective(D) : D \in {S \in SUBSET AllFields : Cardinality(S) <= MaxDefects}}

Documents == {MakeDoc("object", d) : d \in Records}
             \cup {MakeDoc(t, NoFields) : t \in {"invalid", "null", "array"}}

Present == {"absent", "dir", "file"}

\* the scratch directory with the mandatory entries of the given kinds
Tree(at, data, md5sums, metadata, doc) ==
    LET node(k, c) == IF k = "dir" THEN DirNode(493) ELSE FileNode(420, c)
        paths == {pathToFolderTMP}
                 \cup (IF data = "absent" THEN {} ELSE {at.scratch["data"]})
                 \cup (IF md5sums = "absent" THEN {} ELSE {at.scratch["md5sums"]})
                 \cup (IF metadata = "absent" THEN {} ELSE {at.scratch["metadata.json"]})
    IN  [p \in paths |->
            IF p = pathToFolderTMP THEN DirNode(493)
            ELSE IF p = at.scratch["data"] THEN node(data, Blob)
            ELSE IF p = at.scratch["md5sums"] THEN node(md5sums, Blob)
            ELSE node(metadata, doc)]

TreesAt(at) ==
    {Tree(at, a, b, c, IF a = "dir" /\ b = "file" /\ c = "file" THEN doc ELSE CompleteV2) :
        a \in Present, b \in Present, c \in Present, doc \in Documents}

Trees == TreesAt(Paths)

InitValidate ==
    /\ build \in Builds
    /\ isRoot = FALSE
    /\ umask = 18
    /\ apgVersion \in Selectors(build)
    /\ pc = "extracted"
    /\ fs \in Trees
    /\ nread = 0
    /\ extractErr = Nil
    /\ verdict = NoVerdict
    /\ printed = {}
    /\ cleanup = "none"
    /\ exitCode = -1

NextValidate ==
    \/ MainValidate
    \/ MainFinish

SpecValidate == InitValidate /\ [][NextValidate]_vars

\* ================================================================ claims
\* some segment of the declared name is ".."
HasDotDotSegment(name) == Contains(Separator \o name \o Separator, "/../")

\* the turn of the loop neither created nor wrote anything
WroteNothing(out) == out.fs = fs /\ out.touched = {}

\* main got as far as choosing the scratch directory
ScratchChosen == printed \cap {"bad flag", "help", "version", "none"} = {}

\* C1: in the loop of extractTarXz every entry whose declared name has a ".."
\* segment, in whatever position, ends the extraction with the path traversal
\* error and nothing is written for it (the loop ends, so nothing is written
\* for a later entry either).
C1_DotDotRejected ==
    pc = "extracting" =>
        \A e \in Entries : HasDotDotSegment(e.name) =>
            turn(e).err = "path traversal attempt" /\ WroteNothing(turn(e))

\* C2: every entry whose declared name is an absolute path ends the extraction
\* with an error before anything is created or written for it.
C2_AbsoluteRejected ==
    pc = "extracting" =>
        \A e \in Entries : IsAbs(e.name) => turn(e).err # "nil" /\ WroteNothing(turn(e))

\* C3: every symbolic link or hard link entry, whatever its name, ends the
\* extraction with an error and creates nothing.
C3_LinksRejected ==
    pc = "extracting" =>
        \A e \in Entries : e.typeflag \in {TypeSymlink, TypeLink} =>
            turn(e).err # "nil" /\ WroteNothing(turn(e))

\* C4: a regular file entry that declares more than 500 MiB ends the extraction
\* with the size error before its file is created; one of exactly 500 MiB is
\* not refused by the size guard.
C4_OversizeRejected ==
    pc = "extracting" =>
        \A e \in Entries : e.typeflag = TypeReg /\ Paths.sanitized[e.name].err = "nil" =>
            /\ e.size > maxFileSize =>
                  turn(e).err = "file too large" /\ WroteNothing(turn(e))
            /\ e.size = maxFileSize => turn(e).err # "file too large"

\* C5: when extractTarXz has returned nil, everything it created lies in the
\* scratch directory (no symbolic link exists, so the path is canonical).
C5_Containment ==
    (pc = "extracted" /\ extractErr = Nil) =>
        \A p \in DOMAIN fs : Within(p, pathToFolderTMP)

\* C6: whenever main has ended after choosing the scratch directory, it has
\* called os.RemoveAll on it.
C6_AlwaysCleanedUp ==
    (pc = "exited" /\ ScratchChosen) => cleanup # "none"

\* C7: when extractTarXz has returned an error the validator is not run and no
\* success message is printed.
C7_NoValidationAfterFailure ==
    extractErr # Nil => verdict = NoVerdict /\ "success" \notin printed

\* C8: the exit code is 0 exactly when the extraction succeeded and the
\* validator returned "good".
C8_ExitCode ==
    (pc = "exited" /\ ScratchChosen) =>
        (exitCode = 0 <=> (extractErr = Nil /\ verdict.status = "good"))

\* ---- the validators
metadataNode == Lookup(fs, Paths.scratch["metadata.json"])
metadataDoc == metadataNode.content

\* the JSON value of key f in metadata.json
ValueOf(f) == IF metadataDoc.top = "object" THEN metadataDoc.fields[f] ELSE "absent"

AllPresent == \A i \in 1..Len(required) : Lookup(fs, Paths.scratch[required[i]]).kind # "none"

\* the JSON value of key f has the type of the struct field
WellTyped(f) ==
    ValueOf(f) \in (IF f \in ListFields THEN {"absent", "null", "emptylist", "list"}
                    ELSE {"absent", "null", "emptystr", "str"})

\* metadata.json is a file that the process can read and that decodes into a
\* struct with the keys `known`
Parses(known) ==
    /\ metadataNode.kind = "file"
    /\ Readable(isRoot, metadataNode)
    /\ metadataDoc.top \in {"object", "null"}
    /\ \A f \in known : WellTyped(f)

\* a string key is missing when empty, absent or null; a list key when absent or null
IsMissing(f) ==
    IF f \in ListFields THEN ValueOf(f) \in {"absent", "null"}
    ELSE ValueOf(f) \in {"absent", "null", "emptystr"}

RequiredV1 == {"name", "version", "description", "maintainer", "homepage",
               "dependencies", "conflicts", "provides", "replaces"}
OnlyV2 == {"type", "tags", "conf"}

Listed(v) == {v.missing[i] : i \in 1..Len(v.missing)}

V1Ran == pc = "validated" /\ ~(build = "TODO.md" /\ apgVersion = 2)
V2Ran == pc = "validated" /\ build = "TODO.md" /\ apgVersion = 2

\* C9: on a directory that holds the three mandatory entries and a metadata.json
\* that parses, the v1 validator lists exactly the v1 string keys that are empty
\* or absent and the v1 list keys that are absent or null, each once and all in
\* one schema error; an empty list is not listed; the result is
\* (nil, nil, "good") exactly when no key is missing.
C9_MissingFieldsV1 ==
    (V1Ran /\ AllPresent /\ Parses(FieldsV1)) =>
        LET expected == {f \in RequiredV1 : IsMissing(f)} IN
        /\ Listed(verdict) = expected
        /\ Len(verdict.missing) = Cardinality(expected)
        /\ \A f \in ListFields : ValueOf(f) = "emptylist" => f \notin Listed(verdict)
        /\ (expected = {}) <=> (verdict = Verdict("nil", "nil", "good", <<>>))
        /\ expected # {} =>
              /\ verdict.fileErr = "nil"
              /\ verdict.jsonErr = "missing fields"
              /\ verdict.status = "bad"

\* C9 happens: the v1 validator has run on a record with an explicitly empty
\* list and a missing key
C9_Witness ==
    /\ V1Ran /\ AllPresent /\ Parses(FieldsV1)
    /\ \E f \in RequiredV1 \cap ListFields : ValueOf(f) = "emptylist"
    /\ verdict.jsonErr = "missing fields"

\* C10 as claimed: v2 "good" implies v1 "good", and a directory that passes v1
\* fails v2 exactly when type is empty or absent or tags or conf is absent or
\* null, the v2 error listing those names.
C10_V2FailsOnlyOnMissing ==
    V2Ran =>
        LET v1 == checkApgFileV1(Paths, fs, isRoot, pathToFolderTMP)
            gone == {f \in OnlyV2 : IsMissing(f)}
        IN  /\ verdict.status = "good" => v1.status = "good"
            /\ v1.status = "good" =>
                  /\ (verdict.status # "good") <=> (gone # {})
                  /\ verdict.status # "good" => Listed(verdict) = gone

\* C10 amended: v2 "good" implies v1 "good"; a directory that passes v1 fails v2
\* exactly when one of type, tags, conf is missing (type empty, absent or null,
\* tags or conf absent or null) or holds a JSON value of another type than the
\* struct field; with a value of another type the v2 error is the JSON decoding
\* error and lists nothing, else it lists exactly the missing ones of the three.
C10_V2ExtendsV1 ==
    V2Ran =>
        LET v1 == checkApgFileV1(Paths, fs, isRoot, pathToFolderTMP)
            gone == {f \in OnlyV2 : IsMissing(f)}
            mistyped == {f \in OnlyV2 : ~WellTyped(f)}
        IN  /\ verdict.status = "good" => v1.status = "good"
            /\ v1.status = "good" =>
                  /\ (verdict.status # "good") <=> (gone # {} \/ mistyped # {})
                  /\ mistyped # {} =>
                        verdict.jsonErr = "invalid JSON" /\ verdict.missing = <<>>
                  /\ (mistyped = {} /\ gone # {}) =>
                        /\ verdict.jsonErr = "missing fields"
                        /\ Listed(verdict) = gone
                        /\ Len(verdict.missing) = Cardinality(gone)

\* C10 happens: the v2 validator has refused, for two missing v2 keys, a
\* directory that the v1 validator accepts
C10_Witness ==
    /\ V2Ran
    /\ checkApgFileV1(Paths, fs, isRoot, pathToFolderTMP).status = "good"
    /\ verdict.jsonErr = "missing fields"
    /\ Cardinality(Listed(verdict)) = 2

\* ---- the mandatory entries
\* what the scratch directory holds under the name of a mandatory entry
entryNode(name) == Lookup(fs, Paths.scratch[name])

ValidatorRan == pc = "validated"

\* the first mandatory entry, in the order of `required`, that does not exist
firstAbsent ==
    IF entryNode("data").kind = "none" THEN "data"
    ELSE IF entryNode("md5sums").kind = "none" THEN "md5sums"
    ELSE IF entryNode("metadata.json").kind = "none" THEN "metadata.json"
    ELSE ""

\* C11: the validator returns "good" only when data is a directory, md5sums a
\* file and metadata.json a file; when data is a regular file or md5sums is a
\* directory it returns a structural error and not "good".
C11_KindsRequired ==
    ValidatorRan =>
        /\ verdict.status = "good" =>
              /\ entryNode("data").kind = "dir"
              /\ entryNode("md5sums").kind = "file"
              /\ entryNode("metadata.json").kind = "file"
        /\ (entryNode("data").kind = "file" \/ entryNode("md5sums").kind = "dir") =>
              verdict.fileErr # "nil" /\ verdict.status # "good"

\* C12: when one of data, md5sums, metadata.json does not exist in the scratch
\* directory, the validator returns the structural error that names the first
\* absent one, no schema error and "bad"; metadata.json is not read, so no
\* read error, parse error or list of missing fields comes back.
C12_MissingShortCircuits ==
    (ValidatorRan /\ firstAbsent # "") => verdict = Verdict(firstAbsent, "nil", "bad", <<>>)

\* the validator has run on a scratch directory that holds the three entries,
\* metadata.json being a file whose bytes are no JSON
RanOnNoJSON ==
    /\ ValidatorRan /\ AllPresent
    /\ metadataNode.kind = "file" /\ metadataDoc.top = "invalid"

\* C13 as claimed: when the three entries exist and metadata.json is a file that
\* holds no JSON, either validator returns the parse error in the schema slot,
\* no structural error, "bad", and no list of missing fields.
C13_InvalidJSON ==
    RanOnNoJSON => verdict = Verdict("nil", "invalid JSON", "bad", <<>>)

\* C13 amended: in that case either validator returns no structural error,
\* "bad", no list of missing fields, and in the schema slot the parse error
\* when the process can read metadata.json and the error of os.ReadFile when it
\* cannot (a file that the extraction created under a umask that takes the
\* read permission from the owner).
C13_InvalidJSONOrUnread ==
    RanOnNoJSON =>
        verdict = Verdict("nil",
                          IF Readable(isRoot, metadataNode) THEN "invalid JSON" ELSE "read",
                          "bad", <<>>)

\* C13 happens: the v2 validator has run on an extracted metadata.json that the
\* process can read and that holds no JSON
C13_Witness ==
    /\ V2Ran /\ AllPresent /\ nread = 3
    /\ metadataNode.kind = "file" /\ metadataDoc.top = "invalid"
    /\ Readable(isRoot, metadataNode)
    /\ verdict.jsonErr = "invalid JSON"

\* ---- cleanup, order of the entries, other kinds, the version selector
\* C14: when os.RemoveAll on the scratch directory has failed, main has printed
\* a warning about it, and after a successful validation it still exits 0.
C14_CleanupWarning ==
    (pc = "exited" /\ cleanup = "failed") =>
        /\ "cleanup failed" \in printed
        /\ (extractErr = Nil /\ verdict.status = "good") => exitCode = 0

\* the errors with which extractTarXz refuses an entry
Rejections == {"absolute path", "path traversal attempt", "outside destination",
               "path too long", "null byte", "file too large", "links not allowed"}

\* C15: the step in which extractTarXz refuses an entry ends the loop, returns
\* the error of that entry with its name, and writes and removes nothing; after
\* the loop no header is read any more, the error stays the one returned, and
\* the file system changes only by the os.RemoveAll of main.
C15_StopsAtFirstRejection ==
    [][ /\ (extractErr = Nil /\ extractErr'.msg \in Rejections) =>
              /\ pc = "extracting" /\ pc' = "extracted"
              /\ nread' = nread + 1
              /\ fs' = fs
              /\ \E e \in Entries : e.name = extractErr'.name /\ turn(e).err = extractErr'.msg
        /\ pc \notin {"open", "extracting"} =>
              /\ nread' = nread
              /\ fs' # fs =>
                    /\ cleanup = "none" /\ cleanup' # "none"
                    /\ fs' = RemoveAll(Paths, fs, isRoot, pathToFolderTMP).fs
        /\ extractErr # Nil => extractErr' = extractErr
      ]_vars

\* C15 happens: the second entry read was refused as a link after the first
\* one had created data, which is still there
C15_Witness ==
    /\ pc = "extracted" /\ nread = 2
    /\ extractErr.msg = "links not allowed"
    /\ entryNode("data").kind = "dir"

\* C16: an entry that is neither directory, regular file, symbolic link nor hard
\* link, under a name that passes the path guards, is skipped: the turn writes
\* nothing, returns no error (the loop goes on) and prints the warning.
C16_OtherKindsSkipped ==
    pc = "extracting" =>
        \A e \in Entries :
            (e.typeflag = TypeFifo /\ Paths.sanitized[e.name].err = "nil") =>
                /\ turn(e).err = "nil"
                /\ turn(e).warned
                /\ WroteNothing(turn(e))

\* C16 happens: the patched extractTarXz has returned nil for an archive of
\* three entries, one of them skipped and the other two written
C16_Witness ==
    /\ build = "part_000" /\ pc = "extracted" /\ nread = 3
    /\ extractErr = Nil /\ "skipping" \in printed
    /\ entryNode("data").kind = "dir"
    /\ entryNode("metadata.json").kind = "file"

\* C17: in version 0.2.0 main runs the v2 validator exactly when the selector
\* is 2 and the v1 validator for every other value; there is no error about an
\* unsupported version, and such a run can end with the success message and 0.
C17_SelectorNotValidated ==
    (build = "TODO.md" /\ pc = "validated") =>
        /\ verdict = IF apgVersion = 2
                     THEN checkApgFileV2(Paths, fs, isRoot, pathToFolderTMP)
                     ELSE checkApgFileV1(Paths, fs, isRoot, pathToFolderTMP)
        /\ printed \subseteq {"skipping"}

\* C17 happens: selector 3, success and exit code 0
C17_Witness ==
    /\ build = "TODO.md" /\ apgVersion = 3 /\ pc = "exited"
    /\ verdict.status = "good"
    /\ "success" \in printed /\ exitCode = 0

\* C18: the scratch directory itself is never a regular file, and every regular
\* file in the file system lies strictly below it.
C18_RootIsDirectory ==
    /\ Lookup(fs, pathToFolderTMP).kind # "file"
    /\ \A p \in DOMAIN fs :
          fs[p].kind = "file" => HasPrefix(p, pathToFolderTMP \o Separator)

\* C19: a relative name without a ".." segment and of at most 255 characters is
\* never refused with the path traversal error.
C19_OnlyRealTraversal ==
    pc = "extracting" =>
        \A e \in Entries :
            (~IsAbs(e.name) /\ ~HasDotDotSegment(e.name) /\ Len(e.name) <= 255) =>
                turn(e).err # "path traversal attempt"

====
